---------------------------- MODULE Spec2Model ----------------------------
(***************************************************************************)
(* A model of octo-virtual-sensors (src/src/lib.rs): the Octo object that  *)
(* locates the Aquacomputer Octo among the attached USB devices, encodes   *)
(* sixteen virtual-sensor values into its 51-byte frame and sends the      *)
(* frame with one bulk write.                                              *)
(*                                                                         *)
(* Byte offsets are those of the Rust code (0-based); a frame is a TLA+    *)
(* sequence, so the byte at offset k is element k + 1.                     *)
(***************************************************************************)
EXTENDS Integers, Sequences, FiniteSets, TLC

VARIABLES
    attached,          \* the USB devices attached, in enumeration order
    list_ok,           \* whether DeviceList::new() succeeds
    overflow_checks,   \* the build profile: TRUE when u16 overflow panics
    pc,                \* position of the single caller thread
    device,            \* Octo.device: index into attached (0: no object)
    buffer,            \* Octo.buffer
    sensor_values,     \* the argument of the current (or last) call
    before,            \* the buffer when the current (or last) call began
    result,            \* what the last finished call returned
    handle,            \* TRUE while a DeviceHandle from device.open() lives
    log                \* the steps of the current (or last) call, in order

vars == <<attached, list_ok, overflow_checks, pc, device, buffer,
          sensor_values, before, result, handle, log>>

---------------------------------------------------------------------------
(* Bounds of the model.                                                    *)

\* the longest input drawn element by element from Values
MaxLen == 2
\* the most devices the enumeration lists
MaxDevices == 2

---------------------------------------------------------------------------
(* Program constants.                                                      *)

HEADER == 1
CHECKSUM == 2
VENDOR_ID == 3184
PRODUCT_ID == 61457
\* variant: one slot too many
SLOTS_17 == 16 + 1

SLOTS == 16
SENTINEL == 32767
SCALE == 100
ENDPOINT == 2
CHECKSUM_HI == 49
CHECKSUM_LO == 50
U16 == 65536
BYTE == 256

\* the template frame of Octo::new
Template ==
    <<4, 127, 255, 127, 255, 127, 255, 127, 255, 127, 255, 127, 255, 127, 255, 127,
      255, 127, 255, 127, 255, 127, 255, 127, 255, 127, 255, 127, 255, 127, 255, 127,
      255, 0, 0, 0, 0, 3, 0, 0, 0, 0, 0, 0, 0, 0, 0, 0, 0, 255, 255>>

---------------------------------------------------------------------------
(* Integer helpers: 16-bit values as naturals below 65536.                 *)

RECURSIVE Xor(_, _)
Xor(a, b) ==
    IF a = 0 THEN b
    ELSE IF b = 0 THEN a
    ELSE 2 * Xor(a \div 2, b \div 2) + ((a + b) % 2)

\* variant: little-endian byte order
to_le_bytes(x) == <<x % BYTE, x \div BYTE>>

\* u16::to_be_bytes
to_be_bytes(x) == <<x \div BYTE, x % BYTE>>

---------------------------------------------------------------------------
(* CRC-16/USB as crc::Crc::<u16>::new(&crc::CRC_16_USB) computes it:       *)
(* polynomial 0x8005 reflected (0xA001), initial value 0xFFFF, input and   *)
(* output reflected, final xor 0xFFFF; one table lookup per byte.          *)

POLY_REFLECTED == 40961
CRC_INIT == 65535
CRC_XOROUT == 65535

RECURSIVE CrcShift(_, _)
CrcShift(r, n) ==
    IF n = 0 THEN r
    ELSE CrcShift(IF r % 2 = 1 THEN Xor(r \div 2, POLY_REFLECTED) ELSE r \div 2, n - 1)

CrcTable == [b \in 0..255 |-> CrcShift(b, 8)]

\* a ^ b for two bytes, tabulated once
XorByte == [a \in 0..255 |-> [b \in 0..255 |-> Xor(a, b)]]

\* one step of digest.update: crc = (crc >> 8) ^ table[(crc ^ byte) & 0xFF]
CrcStep(crc, byte) ==
    LET t == CrcTable[XorByte[crc % BYTE][byte]]
    IN  (t \div BYTE) * BYTE + XorByte[crc \div BYTE][t % BYTE]

\* digest.update(bytes) from the state crc: the steps, byte by byte
CrcUpdate(crc, bytes) ==
    LET run[p \in (0..(U16 - 1)) \X (1..(Len(bytes) + 1))] ==
            IF p[2] > Len(bytes) THEN p[1]
            ELSE run[<<CrcStep(p[1], bytes[p[2]]), p[2] + 1>>]
    IN  run[<<crc, 1>>]

\* variant: no final xor (the CRC-16/MODBUS parameters)
CrcFinalize_noxor(crc) == crc

\* digest.finalize: the final xor with 0xFFFF
CrcFinalize(crc) == Xor(crc, CRC_XOROUT)

Crc16Usb(bytes) == CrcFinalize(CrcUpdate(CRC_INIT, bytes))

---------------------------------------------------------------------------
(* Octo::update_buffer.                                                    *)

\* buffer[offset] = value[0]; buffer[offset + 1] = value[1]
Put(buf, offset, value) ==
    [buf EXCEPT ![offset + 1] = value[1], ![offset + 2] = value[2]]

\* 100_u16 * value: TRUE when the product does not fit in a u16
Overflows(value) == SCALE * value >= U16

\* variant: a saturating product
Mul100_saturating(value) ==
    IF SCALE * value >= U16 THEN U16 - 1 ELSE SCALE * value

\* 100_u16 * value in a build without overflow checks: the low 16 bits
Mul100(value) == (SCALE * value) % U16

\* the branch for an index the input covers (lib.rs 63-65)
Encoded(buf, offset, value) == Put(buf, offset, to_be_bytes(Mul100(value)))

\* variant: an uncovered slot keeps what it held
Unset_keep(buf, offset) == buf

\* the branch for an index the input does not cover (lib.rs 67-69)
Unset(buf, offset) == Put(buf, offset, to_be_bytes(SENTINEL))

\* the loop `for index in 0..16`, from `index` on; panic is TRUE when the
\* multiplication overflowed in a build that checks it, and buf is then the
\* buffer as the loop left it
RECURSIVE Slots(_, _, _, _)
Slots(buf, values, index, checks) ==
    IF index >= SLOTS THEN [buffer |-> buf, panic |-> FALSE]
    ELSE LET sensor_offset == HEADER + 2 * index
         IN  IF index < Len(values)
             THEN IF checks /\ Overflows(values[index + 1])
                  THEN [buffer |-> buf, panic |-> TRUE]
                  ELSE Slots(Encoded(buf, sensor_offset, values[index + 1]),
                             values, index + 1, checks)
             ELSE Slots(Unset(buf, sensor_offset), values, index + 1, checks)

\* variant: the range starts at the header byte
ChecksumRange_from0(buf) == SubSeq(buf, 1, Len(buf) - CHECKSUM)

\* &self.buffer[HEADER..self.buffer.len() - CHECKSUM]
ChecksumRange(buf) == SubSeq(buf, HEADER + 1, Len(buf) - CHECKSUM)

\* lines 73-82: the digest over the range, stored big-endian at 49 and 50
WithChecksum(buf) ==
    LET checksum == to_be_bytes(Crc16Usb(ChecksumRange(buf)))
    IN  [buf EXCEPT ![CHECKSUM_HI + 1] = checksum[1], ![CHECKSUM_LO + 1] = checksum[2]]

update_buffer(buf, values, checks) ==
    LET r == Slots(buf, values, 0, checks)
    IN  IF r.panic THEN r ELSE [buffer |-> WithChecksum(r.buffer), panic |-> FALSE]

---------------------------------------------------------------------------
(* Octo::new: the scan of the device list.                                 *)

\* device.device_descriptor(): the identifiers, or an error
device_descriptor(dev) ==
    IF dev.readable
    THEN [ok |-> TRUE, vendor_id |-> dev.vendor_id, product_id |-> dev.product_id]
    ELSE [ok |-> FALSE, vendor_id |-> 0, product_id |-> 0]

\* variant: either identifier suffices
Matches_either(dd) == dd.vendor_id = VENDOR_ID \/ dd.product_id = PRODUCT_ID

\* dd.vendor_id() == VENDOR_ID && dd.product_id() == PRODUCT_ID
Matches(dd) == dd.vendor_id = VENDOR_ID /\ dd.product_id = PRODUCT_ID

\* variant: a device whose descriptor cannot be read is skipped
RECURSIVE Scan_skip(_, _)
Scan_skip(devs, i) ==
    IF i > Len(devs) THEN [kind |-> "DeviceNotFound", index |-> 0]
    ELSE LET dd == device_descriptor(devs[i])
         IN  IF dd.ok /\ dd.vendor_id = VENDOR_ID /\ dd.product_id = PRODUCT_ID
             THEN [kind |-> "Ok", index |-> i]
             ELSE Scan_skip(devs, i + 1)

\* the loop over DeviceList::new()?.iter(), from position i on: `?` on the
\* descriptor returns the error, a match returns the device, and the end of
\* the list reaches the bail!
RECURSIVE Scan(_, _)
Scan(devs, i) ==
    IF i > Len(devs) THEN [kind |-> "DeviceNotFound", index |-> 0]
    ELSE LET dd == device_descriptor(devs[i])
         IN  IF ~dd.ok THEN [kind |-> "DescriptorError", index |-> 0]
             ELSE IF Matches(dd) THEN [kind |-> "Ok", index |-> i]
             ELSE Scan(devs, i + 1)

---------------------------------------------------------------------------
(* The inputs the model draws.                                             *)

\* identifiers of the Octo and of some other device
VendorIds == {VENDOR_ID, 1133}
ProductIds == {PRODUCT_ID, 49271}

Devices == [vendor_id : VendorIds, product_id : ProductIds, readable : BOOLEAN]

DeviceLists == UNION {[1..n -> Devices] : n \in 0..MaxDevices}

\* sensor values: one whose product with 100 fits in a u16 and the smallest
\* whose product does not
Values == {1, 656}

Ramp(n) == [i \in 1..n |-> i]

Inputs ==
    UNION {[1..n -> Values] : n \in 0..MaxLen}
    \cup {<<655, 0>>, Ramp(SLOTS), Ramp(SLOTS + 1),
          [i \in 1..SLOTS |-> 655],
          [i \in 1..SLOTS |-> IF i = SLOTS THEN 65535 ELSE i],
          [i \in 1..(SLOTS + 1) |-> IF i = SLOTS + 1 THEN 656 ELSE i]}

\* the Octo among the attached devices of the specification that starts
\* after construction
Octo == [vendor_id |-> VENDOR_ID, product_id |-> PRODUCT_ID, readable |-> TRUE]

---------------------------------------------------------------------------
(* Actions.                                                                *)

\* Octo::new()
New ==
    /\ pc = "start"
    /\ LET r == IF list_ok THEN Scan(attached, 1)
                ELSE [kind |-> "DeviceListError", index |-> 0]
       IN  /\ result' = r.kind
           /\ device' = r.index
           /\ buffer' = IF r.kind = "Ok" THEN Template ELSE buffer
           /\ pc' = IF r.kind = "Ok" THEN "ready" ELSE "failed"
    /\ UNCHANGED <<attached, list_ok, overflow_checks, sensor_values, before,
                   handle, log>>

\* update_buffer(values) called on its own, as the test of lib.rs does
UpdateBuffer(values) ==
    /\ pc = "ready"
    /\ LET r == update_buffer(buffer, values, overflow_checks)
       IN  /\ buffer' = r.buffer
           /\ pc' = IF r.panic THEN "panicked" ELSE "ready"
           /\ result' = IF r.panic THEN "Panic" ELSE "Unit"
    /\ sensor_values' = values
    /\ before' = buffer
    /\ log' = <<[op |-> "update_buffer"]>>
    /\ UNCHANGED <<attached, list_ok, overflow_checks, device, handle>>

\* update_virtual_sensors(values), first statement: self.update_buffer(..);
\* result keeps what the previous call returned until this one returns
UpdateVirtualSensors(values) ==
    /\ pc = "ready"
    /\ LET r == update_buffer(buffer, values, overflow_checks)
       IN  /\ buffer' = r.buffer
           /\ pc' = IF r.panic THEN "panicked" ELSE "send"
           /\ result' = IF r.panic THEN "Panic" ELSE result
    /\ sensor_values' = values
    /\ before' = buffer
    /\ log' = <<[op |-> "update_buffer"]>>
    /\ UNCHANGED <<attached, list_ok, overflow_checks, device, handle>>

\* variant: the handle outlives the call
Release_keep(h) == h

\* the DeviceHandle `open` goes out of scope
Release(h) == FALSE

\* send, line 87: self.device.open().context(..)?
Open ==
    /\ pc = "send"
    /\ \E ok \in BOOLEAN :
          /\ log' = Append(log, [op |-> "open", device |-> device, ok |-> ok])
          /\ handle' = ok
          /\ pc' = IF ok THEN "write_bulk" ELSE "ready"
          /\ result' = IF ok THEN result ELSE "DeviceOpenError"
    /\ UNCHANGED <<attached, list_ok, overflow_checks, device, buffer,
                   sensor_values, before>>

\* send, lines 89-92: open.write_bulk(2, &self.buffer, TIMEOUT), its result
\* returned, the handle dropped on the way out
WriteBulk ==
    /\ pc = "write_bulk"
    /\ \E ok \in BOOLEAN :
          /\ log' = log \o <<[op |-> "write_bulk", endpoint |-> ENDPOINT,
                                data |-> buffer, ok |-> ok]>>
          /\ result' = IF ok THEN "Ok" ELSE "TransferError"
    /\ handle' = Release(handle)
    /\ pc' = "ready"
    /\ UNCHANGED <<attached, list_ok, overflow_checks, device, buffer,
                   sensor_values, before>>

---------------------------------------------------------------------------
(* Spec: the object after a successful Octo::new(), under any sequence of  *)
(* calls.                                                                  *)

Init ==
    /\ attached = <<Octo>>
    /\ list_ok = TRUE
    /\ overflow_checks \in BOOLEAN
    /\ pc = "ready"
    /\ device = 1
    /\ buffer = Template
    /\ sensor_values = <<>>
    /\ before = <<>>
    /\ result = "Ok"
    /\ handle = FALSE
    /\ log = <<>>

Next ==
    \/ \E values \in Inputs : UpdateBuffer(values)
    \/ \E values \in Inputs : UpdateVirtualSensors(values)
    \/ Open
    \/ WriteBulk

Spec == Init /\ [][Next]_vars

(* SpecNew: construction over every list of attached devices.              *)

InitNew ==
    /\ attached \in DeviceLists
    /\ list_ok \in BOOLEAN
    /\ overflow_checks \in BOOLEAN
    /\ pc = "start"
    /\ device = 0
    /\ buffer = <<>>
    /\ sensor_values = <<>>
    /\ before = <<>>
    /\ result = "None"
    /\ handle = FALSE
    /\ log = <<>>

NextNew == New

SpecNew == InitNew /\ [][NextNew]_vars

---------------------------------------------------------------------------
(* Properties.                                                             *)

\* a call has been made and has returned or is on its way through send
Returned == log # <<>> /\ pc \in {"ready", "send", "write_bulk"}

\* bytes 49-50 big-endian are CRC-16/USB of bytes 1..=48
CrcOk(frame) ==
    frame[50] * 256 + frame[51] = Crc16Usb(SubSeq(frame, 2, 49))

\* the frame the specification describes for an input, written out byte by
\* byte: header 4, sixteen slots, the configuration block, the checksum
FrameOf(values) ==
    LET slot(i) == IF i < Len(values) THEN (100 * values[i + 1]) % 65536
                   ELSE 32767
        body == [k \in 1..48 |->
                    IF k <= 32
                    THEN IF k % 2 = 1 THEN slot((k - 1) \div 2) \div 256
                         ELSE slot((k - 1) \div 2) % 256
                    ELSE Template[k + 1]]
        crc == Crc16Usb(body)
    IN  <<4>> \o body \o <<crc \div 256, crc % 256>>

\* the write_bulk steps of the current call
Writes == {i \in 1..Len(log) : log[i].op = "write_bulk"}

\* C1: after one or more update_buffer / update_virtual_sensors calls, bytes
\* 49-50 of the frame, big-endian, are CRC-16/USB of bytes 1..=48 of the
\* same frame, and every frame handed to the bulk write satisfies this and
\* is not the template with its placeholder checksum.
C1_ChecksumCurrent ==
    /\ Returned => CrcOk(buffer)
    /\ \A i \in Writes : CrcOk(log[i].data) /\ log[i].data # Template

C1_Witness ==
    /\ pc = "ready"
    /\ result = "Ok"
    /\ sensor_values = <<1, 656>>
    /\ before # Template
    /\ Writes # {}

\* C2: the frame after update_buffer(v) is the frame the same input gives on
\* the freshly constructed object, whatever updates came before; so the same
\* input twice in a row gives the same bytes.
C2_FrameDependsOnInputOnly ==
    Returned =>
        buffer = update_buffer(Template, sensor_values, overflow_checks).buffer

C2_Witness ==
    /\ pc = "ready"
    /\ sensor_values = <<1>>
    /\ Len(before) = 51
    /\ before[4] = 0 /\ before[5] = 200
    /\ buffer[4] = 127 /\ buffer[5] = 255

\* C3: after update_buffer(values) with at most 16 values, each in 0..=655,
\* slot i (offsets 1+2i and 2+2i) is values[i]*100 big-endian for i < n and
\* 0x7F 0xFF for i >= n, even where slot i held an encoded value before.
C3_SlotEncoding ==
    (/\ Returned
     /\ Len(sensor_values) <= 16
     /\ \A k \in 1..Len(sensor_values) : sensor_values[k] <= 655)
    => \A i \in 0..15 :
          IF i < Len(sensor_values)
          THEN /\ buffer[2 + 2 * i] = (sensor_values[i + 1] * 100) \div 256
               /\ buffer[3 + 2 * i] = (sensor_values[i + 1] * 100) % 256
          ELSE /\ buffer[2 + 2 * i] = 127
               /\ buffer[3 + 2 * i] = 255

C3_Witness ==
    /\ pc = "ready"
    /\ sensor_values = <<>>
    /\ log # <<>>
    /\ Len(before) = 51
    /\ before[2] = 0 /\ before[3] = 100
    /\ before[32] = 6 /\ before[33] = 64
    /\ result = "Unit"

\* the frame the test of lib.rs expects for [1, 2, ..., 16]
Expected ==
    <<4, 0, 100, 0, 200, 1, 44, 1, 144, 1, 244, 2, 88, 2, 188, 3, 32, 3, 132, 3, 232, 4, 76,
      4, 176, 5, 20, 5, 120, 5, 220, 6, 64, 0, 0, 0, 0, 3, 0, 0, 0, 0, 0, 0, 0, 0, 0, 0, 0,
      218, 118>>

\* C4: encoding [1, 2, ..., 16] on a freshly constructed object yields
\* exactly the 51 bytes of Expected.
C4_ScenarioFrame ==
    (Returned /\ before = Template /\ sensor_values = Ramp(16))
    => buffer = Expected

C4_Witness ==
    /\ pc = "ready"
    /\ result = "Unit"
    /\ before = Template
    /\ sensor_values = Ramp(16)
    /\ log = <<[op |-> "update_buffer"]>>

\* C5: frame encoding never fails for any u16 input: the call completes and
\* slot i < 16 of a supplied value v holds (v*100) mod 65536 big-endian.
C5_EncodingNeverFails ==
    log # <<>> =>
        /\ pc # "panicked"
        /\ \A i \in 0..15 :
              i < Len(sensor_values) =>
                 buffer[2 + 2 * i] * 256 + buffer[3 + 2 * i]
                    = (sensor_values[i + 1] * 100) % 65536

\* a call of update_virtual_sensors has returned an error from send
SendFailed == pc = "ready" /\ result \in {"DeviceOpenError", "TransferError"}

\* C6 as stated: when update_virtual_sensors returns an error from open or
\* from the bulk write, the 51 bytes equal the bytes before the call.
C6_BufferUnchangedOnFailure == SendFailed => buffer = before

\* C6 amended: when update_virtual_sensors(values) returns an error from
\* open or from the bulk write, the 51 bytes are the frame encoded from
\* values by that call: send has not touched what update_buffer wrote.
C6_FailureKeepsEncodedFrame == SendFailed => buffer = FrameOf(sensor_values)

C6_Witness ==
    /\ SendFailed
    /\ result = "TransferError"
    /\ sensor_values = <<656, 1>>
    /\ buffer # before
    /\ before # Template

\* the device at position i carries the identifiers of the Octo and its
\* descriptor can be read
IsOcto(i) ==
    /\ attached[i].readable
    /\ attached[i].vendor_id = 3184
    /\ attached[i].product_id = 61457

\* some descriptor cannot be read and no Octo is listed before it
UnreadableReached ==
    \E i \in 1..Len(attached) :
        ~attached[i].readable /\ \A j \in 1..(i - 1) : ~IsOcto(j)

\* Octo::new has returned, having obtained the device list
Constructed == pc # "start" /\ list_ok

\* C7 as stated: construction fails with the descriptor-read error if any
\* enumerated device's descriptor cannot be read, in every enumeration order.
C7_AnyUnreadableFails ==
    (Constructed /\ \E i \in 1..Len(attached) : ~attached[i].readable)
    => result = "DescriptorError"

\* C7 amended: construction fails with the descriptor-read error exactly
\* when a descriptor that cannot be read is reached before any device whose
\* identifiers equal (3184, 61457); an unreadable device listed after that
\* device is never read and construction succeeds.
C7_UnreadableBeforeMatchFails ==
    Constructed =>
        /\ (result = "DescriptorError") <=> UnreadableReached
        /\ (\E i \in 1..Len(attached) :
               IsOcto(i) /\ \A j \in 1..(i - 1) : attached[j].readable)
           => pc = "ready"

C7_Witness ==
    /\ Constructed
    /\ result = "DescriptorError"
    /\ Len(attached) = 2
    /\ ~attached[1].readable
    /\ IsOcto(2)

\* C8: when every scanned descriptor is readable, Octo::new returns the
\* first device in enumeration order whose vendor id is 3184 and product id
\* is 61457, with the frame the template; it fails with the not-found error
\* exactly when no device of the list matches both.
C8_FirstMatchReturned ==
    (Constructed /\ ~UnreadableReached) =>
        LET M == {i \in 1..Len(attached) : IsOcto(i)}
        IN  IF M = {}
            THEN pc = "failed" /\ result = "DeviceNotFound" /\ device = 0
            ELSE /\ pc = "ready"
                 /\ result = "Ok"
                 /\ device \in M
                 /\ \A i \in M : device <= i
                 /\ buffer = Template

C8_Witness ==
    /\ pc = "ready"
    /\ device = 2
    /\ attached[1].readable
    /\ attached[1].vendor_id = 3184
    /\ attached[1].product_id # 61457

\* C9: in every state after construction the frame is 51 bytes, byte 0 is 4
\* and bytes 33..=48 are the configuration block of the template; input
\* values at positions 16 and beyond have no effect on the frame.
C9_FrameShape ==
    /\ Len(buffer) = 51
    /\ buffer[1] = 4
    /\ SubSeq(buffer, 34, 49) = <<0, 0, 0, 0, 3, 0, 0, 0, 0, 0, 0, 0, 0, 0, 0, 0>>
    /\ (Returned /\ Len(sensor_values) > 16)
       => buffer = FrameOf(SubSeq(sensor_values, 1, 16))

C9_Witness ==
    /\ pc = "ready"
    /\ result = "TransferError"
    /\ Len(sensor_values) = 17
    /\ sensor_values[17] = 656
    /\ overflow_checks

\* the steps of a call of update_virtual_sensors that has returned
OpenStep(ok) == [op |-> "open", device |-> 1, ok |-> ok]
WriteStep(ok) == [op |-> "write_bulk", endpoint |-> 2, data |-> buffer, ok |-> ok]
EncodeStep == [op |-> "update_buffer"]

\* C10: a call of update_virtual_sensors encodes once, then attempts one
\* open, then, only if that succeeded, writes the whole 51-byte frame once
\* to endpoint 2; nothing is retried, the handle is released before the call
\* returns, and after a failure the next call opens the same device afresh.
C10_OneEncodeOneOpenOneWrite ==
    /\ device = 1
    /\ handle <=> pc = "write_bulk"
    /\ pc = "send" => log = <<EncodeStep>>
    /\ pc = "write_bulk" => log = <<EncodeStep, OpenStep(TRUE)>>
    /\ pc = "ready" =>
          /\ result = "Ok" /\ log # <<>> =>
                /\ log = <<EncodeStep, OpenStep(TRUE), WriteStep(TRUE)>>
                /\ Len(log[3].data) = 51
          /\ result = "TransferError" =>
                log = <<EncodeStep, OpenStep(TRUE), WriteStep(FALSE)>>
          /\ result = "DeviceOpenError" =>
                log = <<EncodeStep, OpenStep(FALSE)>>
    /\ pc = "send" => ENABLED Open

C10_Witness ==
    /\ pc = "write_bulk"
    /\ handle
    /\ result = "DeviceOpenError"
    /\ log = <<EncodeStep, OpenStep(TRUE)>>

===========================================================================
